---- MODULE Spec2Model ----
(***************************************************************************)
(* Model of echopype's record-to-zarr writer (convert/parsed_to_zarr.py)   *)
(* and of the multi-file combine of the Convert class                      *)
(* (convert/convert_ui.py).                                                *)
(*                                                                         *)
(* A numpy array is modelled as a list of runs [tag, off, len]: the run    *)
(* stands for the len elements off, off+1, ... of the input array `tag`.   *)
(* Tag 0 is NaN (all NaN elements are alike, so its off is always 0).      *)
(* A cell of a data frame is [nd |-> TRUE, data |-> runs] for an ndarray   *)
(* and NaNValue for the float NaN that reindex fills in.                   *)
(***************************************************************************)
EXTENDS Integers, Sequences, FiniteSets, TLC

\* ---------------------------------------------------------------- bounds
NumTimes == 3
NumChans == 2
MaxRecords == 3
MaxMb == 2
MaxN == 8
MaxFiles == 3
MaxExtra == 1
MaxSteps == 2
NumBeams == 2

\* lengths of the sample arrays of the input records
SampleLens == {0, 75000, 125000}

\* ------------------------------------------------------ program constants
ElemSize == 8
BudgetUnit == 1000000

\* -------------------------------------------------------------- helpers
Max(a, b) == IF a >= b THEN a ELSE b
Min(a, b) == IF a <= b THEN a ELSE b

RECURSIVE SeqMax(_)
SeqMax(s) == IF s = <<>> THEN 0 ELSE Max(Head(s), SeqMax(Tail(s)))

RECURSIVE SeqMin(_)
SeqMin(s) == IF Len(s) = 1 THEN s[1] ELSE Min(Head(s), SeqMin(Tail(s)))

RECURSIVE SeqSum(_)
SeqSum(s) == IF s = <<>> THEN 0 ELSE Head(s) + SeqSum(Tail(s))

RECURSIVE Flatten(_)
Flatten(ss) == IF ss = <<>> THEN <<>> ELSE Head(ss) \o Flatten(Tail(ss))

Position(s, x) == CHOOSE i \in 1..Len(s) : s[i] = x

\* ---------------------------------------------------------- numpy arrays
NaNValue == [nd |-> FALSE, data |-> <<>>]

NdArray(tag, n) ==
    [nd |-> TRUE,
     data |-> IF n = 0 THEN <<>> ELSE <<[tag |-> tag, off |-> 0, len |-> n]>>]

RECURSIVE Size(_)
Size(runs) == IF runs = <<>> THEN 0 ELSE Head(runs).len + Size(Tail(runs))

\* the n elements of `runs` from position `start` on (0-based), as runs
RECURSIVE Slice(_, _, _)
Slice(runs, start, n) ==
    IF n = 0 \/ runs = <<>> THEN <<>>
    ELSE LET r == Head(runs) IN
         IF start >= r.len THEN Slice(Tail(runs), start - r.len, n)
         ELSE LET take == Min(r.len - start, n) IN
              <<[tag |-> r.tag,
                 off |-> IF r.tag = 0 THEN 0 ELSE r.off + start,
                 len |-> take]>> \o Slice(Tail(runs), 0, n - take)

\* np.empty(max_dim); nan_array[:] = np.nan
nan_array_of(max_dim) ==
    IF max_dim = 0 THEN <<>> ELSE <<[tag |-> 0, off |-> 0, len |-> max_dim]>>

\* ndarray.reshape((time_chunk, num_chan, size_elem)): C order, fails when
\* the number of elements differs from the product of the shape
reshape(flat, time_chunk, num_chan, size_elem) ==
    IF Size(flat) # time_chunk * num_chan * size_elem
    THEN [err |-> "ValueError", data |-> <<>>]
    ELSE [err |-> "None",
          data |-> [t \in 1..time_chunk |-> [c \in 1..num_chan |->
                      Slice(flat, ((t - 1) * num_chan + (c - 1)) * size_elem,
                            size_elem)]]]

\* ------------------------------------------------------- set_multi_index
\* a unique() that forgets to drop the repeated values
UniqueKeepAll(s) == s

\* pandas unique(): the distinct values in order of first appearance
RECURSIVE Unique(_)
Unique(s) ==
    IF s = <<>> THEN <<>>
    ELSE LET r == Unique(SubSeq(s, 1, Len(s) - 1))
             l == s[Len(s)]
         IN IF \E i \in 1..Len(r) : r[i] = l THEN r ELSE Append(r, l)

\* pd.MultiIndex.from_product: the tuples of the product, first list major
RECURSIVE from_product(_)
from_product(lists) ==
    IF lists = <<>> THEN << <<>> >>
    ELSE LET rest == from_product(Tail(lists))
             hd == Head(lists)
         IN Flatten([i \in 1..Len(hd) |->
                       [j \in 1..Len(rest) |-> <<hd[i]>> \o rest[j]]])

\* df.copy().set_index(dims).reindex(multi_index, fill_value=np.nan);
\* reindex raises on an index with duplicate labels (ValueError, or its
\* kin InvalidIndexError in some pandas)
set_multi_index(df, dims) ==
    LET column(name) == [k \in 1..Len(df) |-> df[k][name]]
        unique_dims == [d \in 1..Len(dims) |-> Unique(column(dims[d]))]
        index == [k \in 1..Len(df) |-> [d \in 1..Len(dims) |-> df[k][dims[d]]]]
        multi_index == from_product(unique_dims)
        is_unique == \A i, j \in 1..Len(df) : index[i] = index[j] => i = j
    IN IF ~is_unique
       THEN [err |-> "ValueError", names |-> dims, rows |-> <<>>]
       ELSE [err |-> "None", names |-> dims,
             rows |-> [m \in 1..Len(multi_index) |->
                 [key |-> multi_index[m],
                  samples |->
                     IF \E k \in 1..Len(df) : index[k] = multi_index[m]
                     THEN df[CHOOSE k \in 1..Len(df) :
                                 index[k] = multi_index[m]].samples
                     ELSE NaNValue]]]

\* the padded view turned back into records (reset_index)
reset_index(view) ==
    [m \in 1..Len(view.rows) |->
        [n \in {view.names[d] : d \in 1..Len(view.names)} \cup {"samples"} |->
            IF n = "samples" THEN view.rows[m].samples
            ELSE view.rows[m].key[Position(view.names, n)]]]

\* ------------------------------------------------------------ get_np_chunk
\* np.concatenate of the cells (an ndarray as it is, anything else replaced
\* by nan_array), then reshape
get_np_chunk(df_chunk, time_chunk, num_chan_, size_elem, nan_array) ==
    LET np_flat == Flatten([k \in 1..Len(df_chunk) |->
                      IF df_chunk[k].nd THEN df_chunk[k].data ELSE nan_array])
    IN reshape(np_flat, time_chunk, num_chan_, size_elem)

\* ------------------------------------------------------------ chunked_even
\* chunks of exactly n items and one last chunk with the remainder
chunked_fixed(items, n) ==
    LET N == Len(items) IN
    IF N < 1 THEN [err |-> "None", chunks |-> <<>>]
    ELSE IF n = 0 THEN [err |-> "ZeroDivisionError", chunks |-> <<>>]
    ELSE [err |-> "None",
          chunks |-> [k \in 1..((N + n - 1) \div n) |->
                        SubSeq(items, (k - 1) * n + 1, Min(k * n, N))]]

\* more_itertools.chunked_even on a sized iterable: ceil(N / n) lists whose
\* sizes differ by at most one; divmod(N, 0) raises ZeroDivisionError
chunked_even(items, n) ==
    LET N == Len(items) IN
    IF N < 1 THEN [err |-> "None", chunks |-> <<>>]
    ELSE IF n = 0 THEN [err |-> "ZeroDivisionError", chunks |-> <<>>]
    ELSE LET num_lists == (N \div n) + (IF N % n > 0 THEN 1 ELSE 0)
             q == N \div num_lists
             r == N % num_lists
             full_size == q + (IF r > 0 THEN 1 ELSE 0)
             partial_size == full_size - 1
             num_full == N - partial_size * num_lists
             size(k) == IF k <= num_full THEN full_size ELSE partial_size
             start(k) == IF k <= num_full THEN (k - 1) * full_size
                         ELSE num_full * full_size
                              + (k - 1 - num_full) * partial_size
         IN [err |-> "None",
             chunks |-> [k \in 1..num_lists |->
                           SubSeq(items, start(k) + 1, start(k) + size(k))]]

\* pd_series.loc[chunk].to_list(): the cells whose level-0 label is in chunk
RECURSIVE loc(_, _)
loc(rows, chunk) ==
    IF rows = <<>> THEN <<>>
    ELSE (IF \E i \in 1..Len(chunk) : chunk[i] = Head(rows).key[1]
          THEN <<Head(rows).samples>> ELSE <<>>) \o loc(Tail(rows), chunk)

\* ------------------------------------------------------------------ state
VARIABLES
    zarr_dgrams,    \* datagram_to_zarr: the list of datagram records
    dims,           \* datagram_to_zarr: the dimensions of the field
    num_mb,         \* datagram_to_zarr: the memory budget in Mb
    wpc,            \* position of datagram_to_zarr
    df_multi,       \* result of set_multi_index
    max_dim,        \* array_col_to_zarr: longest sample array
    num_chan,       \* array_col_to_zarr: number of unique channels
    max_num_pings,  \* array_col_to_zarr: time steps per chunk
    chunks,         \* write_chunks: the chunks of unique times
    chunk_i,        \* write_chunks: index of the next chunk to write
    full_array,     \* the zarr array of the field
    werr,           \* exception raised by the write path, "None" if none
    unique_times,   \* chunking alone: the unique times
    max_time_chunk, \* chunking alone: the chunk size
    even_chunks,    \* chunking alone: the chunks
    cpc,            \* chunking alone: position
    sonar_model,    \* Convert.sonar_model
    source_file,    \* Convert.source_file: the raw files
    output_file,    \* Convert.output_file: the converted files
    extra_files,    \* Convert.extra_files (EK80 only)
    src_files,      \* combine_files: argument, [given, files]
    remove_orig,    \* combine_files: argument
    stores,         \* what the converted files hold
    fs,             \* the converted files that exist on disk
    written,        \* the writes made to the combined outputs, in order
    file_groups,    \* combine_files: [bound, groups]
    save_path,      \* combine_files: path of the combined output
    group_i,        \* combine_files: index i of the loop over file_groups
    stage,          \* combine_files: the next group to combine
    remove_i,       \* combine_files: index of the next file to delete
    result,         \* combine_files: value returned or exception raised
    bpc             \* position of combine_files

wvars == <<zarr_dgrams, dims, num_mb, wpc, df_multi, max_dim, num_chan,
           max_num_pings, chunks, chunk_i, full_array, werr>>
cvars == <<unique_times, max_time_chunk, even_chunks, cpc>>
bvars == <<sonar_model, source_file, output_file, extra_files, src_files,
           remove_orig, stores, fs, written, file_groups, save_path, group_i,
           stage, remove_i, result, bpc>>
vars == <<wvars, cvars, bvars>>

\* zarr_vars of the field as the parsers give it:
\* {'samples': ['timestamp', 'channel']}
Dims == <<"timestamp", "channel">>

NoView == [err |-> "None", names |-> <<>>, rows |-> <<>>]
NoArray == [created |-> FALSE, data |-> <<>>, chunks |-> <<0, 0, 0>>]

\* timestamps and channels are labels the code only compares for equality:
\* the inputs number them in order of first appearance
Labels(n, K) ==
    {f \in [1..n -> 1..K] :
        /\ f[1] = 1
        /\ \A i \in 2..n : \E j \in 1..(i - 1) : f[i] <= f[j] + 1}

\* record k carries the array tagged k, or no array at all (len -1)
MkDgrams(ts, cs, ls) ==
    [k \in DOMAIN ts |->
        [timestamp |-> ts[k], channel |-> cs[k],
         samples |-> IF ls[k] = -1 THEN NaNValue ELSE NdArray(k, ls[k])]]

WIdle ==
    /\ zarr_dgrams = <<>> /\ dims = <<>> /\ num_mb = 0 /\ wpc = "idle"
    /\ df_multi = NoView /\ max_dim = 0 /\ num_chan = 0
    /\ max_num_pings = 0 /\ chunks = <<>> /\ chunk_i = 0
    /\ full_array = NoArray /\ werr = "None"

CIdle ==
    /\ unique_times = <<>> /\ max_time_chunk = 0
    /\ even_chunks = <<>> /\ cpc = "idle"

NoPath == [base |-> 0, cw |-> 0, ext |-> ""]

BIdle ==
    /\ sonar_model = "" /\ source_file = <<>> /\ output_file = <<>>
    /\ extra_files = <<>> /\ src_files = [given |-> FALSE, files |-> <<>>]
    /\ remove_orig = FALSE /\ stores = [params |-> <<>>, in_order |-> TRUE,
                                        steps |-> 0]
    /\ fs = {} /\ written = <<>>
    /\ file_groups = [bound |-> FALSE, groups |-> <<>>]
    /\ save_path = NoPath /\ group_i = 0 /\ stage = 0 /\ remove_i = 0
    /\ result = "None" /\ bpc = "idle"

WInit ==
    /\ \E n \in 1..MaxRecords :
          \E ts \in Labels(n, NumTimes), cs \in Labels(n, NumChans),
             ls \in [1..n -> SampleLens \cup {-1}] :
                zarr_dgrams = MkDgrams(ts, cs, ls)
    /\ dims = Dims
    /\ num_mb \in 1..MaxMb
    /\ wpc = "start"
    /\ df_multi = NoView /\ max_dim = 0 /\ num_chan = 0
    /\ max_num_pings = 0 /\ chunks = <<>> /\ chunk_i = 0
    /\ full_array = NoArray /\ werr = "None"

\* datagram_to_zarr up to the call of set_multi_index
SetMultiIndex ==
    /\ wpc = "start"
    /\ df_multi' = set_multi_index(zarr_dgrams, dims)
    /\ werr' = df_multi'.err
    /\ wpc' = IF df_multi'.err = "None" THEN "indexed" ELSE "done"
    /\ UNCHANGED <<zarr_dgrams, dims, num_mb, max_dim, num_chan, max_num_pings,
                   chunks, chunk_i, full_array, cvars, bvars>>

\* level values of the index level called `name`
level(view, name) ==
    [m \in 1..Len(view.rows) |-> view.rows[m].key[Position(view.names, name)]]

\* a floor division that gives 0 for the divisor 0 instead of raising
num_elements_lenient(mb, elem_bytes) ==
    [err |-> "None",
     val |-> IF elem_bytes = 0 THEN 0 ELSE mb * (BudgetUnit \div elem_bytes)]

\* int(num_mb) * int(1e6 // elem_bytes): 1e6 // 0 is no finite number and
\* int() of it raises (which exception depends on the numpy at hand)
num_elements_of(mb, elem_bytes) ==
    IF elem_bytes = 0 THEN [err |-> "OverflowError", val |-> 0]
    ELSE [err |-> "None", val |-> mb * (BudgetUnit \div elem_bytes)]

\* write_df_to_zarr and array_col_to_zarr up to the call of write_chunks
ArrayColToZarr ==
    /\ wpc = "indexed"
    /\ LET names == {df_multi.names[d] : d \in 1..Len(df_multi.names)}
           max_dim_ == SeqMax([m \in 1..Len(df_multi.rows) |->
                         IF df_multi.rows[m].samples.nd
                         THEN Size(df_multi.rows[m].samples.data) ELSE 0])
           elem_bytes == max_dim_ * ElemSize
           num_elements == num_elements_of(num_mb, elem_bytes)
       IN IF names \ {"timestamp", "channel"} # {}
          THEN /\ werr' = "NotImplementedError" /\ wpc' = "done"
               /\ UNCHANGED <<max_dim, num_chan, max_num_pings>>
          ELSE IF num_elements.err # "None"
          THEN /\ werr' = num_elements.err /\ wpc' = "done"
               /\ max_dim' = max_dim_
               /\ UNCHANGED <<num_chan, max_num_pings>>
          ELSE IF "channel" \notin names
          THEN /\ werr' = "KeyError" /\ wpc' = "done"
               /\ max_dim' = max_dim_
               /\ UNCHANGED <<num_chan, max_num_pings>>
          ELSE LET num_chan_ == Len(Unique(level(df_multi, "channel")))
               IN /\ max_dim' = max_dim_
                  /\ num_chan' = num_chan_
                  /\ max_num_pings' = num_elements.val \div num_chan_
                  /\ wpc' = "chunking"
                  /\ UNCHANGED werr
    /\ UNCHANGED <<zarr_dgrams, dims, num_mb, df_multi, chunks, chunk_i,
                   full_array, cvars, bvars>>

\* write_chunks up to the creation of the zarr array from the first chunk
WriteFirstChunk ==
    /\ wpc = "chunking"
    /\ LET times == Unique([m \in 1..Len(df_multi.rows) |->
                              df_multi.rows[m].key[1]])
           ce == chunked_even(times, max_num_pings)
           chunk_len == [k \in 1..Len(ce.chunks) |-> Len(ce.chunks[k])]
           max_chunk_len == SeqMax(chunk_len)
           np_chunk == get_np_chunk(loc(df_multi.rows, ce.chunks[1]),
                                    chunk_len[1], num_chan, max_dim,
                                    nan_array_of(max_dim))
       IN IF ce.err # "None"
          THEN /\ werr' = ce.err /\ wpc' = "done"
               /\ UNCHANGED <<chunks, chunk_i, full_array>>
          ELSE IF np_chunk.err # "None"
          THEN /\ werr' = np_chunk.err /\ wpc' = "done"
               /\ chunks' = ce.chunks
               /\ UNCHANGED <<chunk_i, full_array>>
          ELSE /\ chunks' = ce.chunks
               /\ full_array' = [created |-> TRUE, data |-> np_chunk.data,
                                 chunks |-> <<max_chunk_len, num_chan,
                                              max_dim>>]
               /\ chunk_i' = 2
               /\ wpc' = "appending"
               /\ UNCHANGED werr
    /\ UNCHANGED <<zarr_dgrams, dims, num_mb, df_multi, max_dim, num_chan,
                   max_num_pings, cvars, bvars>>

\* an append that puts the new time steps in the place of the old ones
append_in_place(array, np_chunk) == [array EXCEPT !.data = np_chunk]

\* zarr.Array.append along axis 0
append(array, np_chunk) == [array EXCEPT !.data = @ \o np_chunk]

\* one turn of the loop of write_chunks: full_array.append(np_chunk)
AppendChunk ==
    /\ wpc = "appending"
    /\ chunk_i <= Len(chunks)
    /\ LET np_chunk == get_np_chunk(loc(df_multi.rows, chunks[chunk_i]),
                                    Len(chunks[chunk_i]), num_chan, max_dim,
                                    nan_array_of(max_dim))
       IN IF np_chunk.err # "None"
          THEN /\ werr' = np_chunk.err /\ wpc' = "done"
               /\ UNCHANGED <<chunk_i, full_array>>
          ELSE /\ full_array' = append(full_array, np_chunk.data)
               /\ chunk_i' = chunk_i + 1
               /\ UNCHANGED <<werr, wpc>>
    /\ UNCHANGED <<zarr_dgrams, dims, num_mb, df_multi, max_dim, num_chan,
                   max_num_pings, chunks, cvars, bvars>>

\* the loop is over: consolidate the metadata and close the store
CloseStore ==
    /\ wpc = "appending"
    /\ chunk_i > Len(chunks)
    /\ wpc' = "done"
    /\ UNCHANGED <<zarr_dgrams, dims, num_mb, df_multi, max_dim, num_chan,
                   max_num_pings, chunks, chunk_i, full_array, werr, cvars, bvars>>

WNext == SetMultiIndex \/ ArrayColToZarr \/ WriteFirstChunk \/ AppendChunk
         \/ CloseStore

Init == WInit /\ CIdle /\ BIdle
Next == WNext
Spec == Init /\ [][Next]_vars

\* ----------------------------------- datagram_to_zarr for any zarr_vars
\* the dimension lists a caller passes as zarr_vars['samples']
DimLists == {<<"timestamp", "channel">>, <<"timestamp", "channel", "beam">>,
             <<"timestamp", "beam">>, <<"timestamp">>}

\* records that carry a third dimension column
MkBeamDgrams(ts, cs, bs, ls) ==
    [k \in DOMAIN ts |->
        [timestamp |-> ts[k], channel |-> cs[k], beam |-> bs[k],
         samples |-> IF ls[k] = -1 THEN NaNValue ELSE NdArray(k, ls[k])]]

DInit ==
    /\ \E n \in 1..MaxRecords :
          \E ts \in Labels(n, NumTimes), cs \in Labels(n, NumChans),
             bs \in Labels(n, NumBeams),
             ls \in [1..n -> SampleLens \cup {-1}] :
                zarr_dgrams = MkBeamDgrams(ts, cs, bs, ls)
    /\ dims \in DimLists
    /\ num_mb \in 1..MaxMb
    /\ wpc = "start"
    /\ df_multi = NoView /\ max_dim = 0 /\ num_chan = 0
    /\ max_num_pings = 0 /\ chunks = <<>> /\ chunk_i = 0
    /\ full_array = NoArray /\ werr = "None"

DimsInit == DInit /\ CIdle /\ BIdle
DimsNext == WNext
DimsSpec == DimsInit /\ [][DimsNext]_vars

\* ------------------------------------------ the chunking of write_chunks
CInit ==
    /\ \E N \in 1..MaxN : unique_times = [k \in 1..N |-> k]
    /\ max_time_chunk \in 1..MaxN
    /\ even_chunks = <<>>
    /\ cpc = "start"

\* lines 64-73 of write_chunks on their own
ChunkTimes ==
    /\ cpc = "start"
    /\ even_chunks' = chunked_even(unique_times, max_time_chunk).chunks
    /\ cpc' = "done"
    /\ UNCHANGED <<unique_times, max_time_chunk, wvars, bvars>>

ChunkInit == WIdle /\ CInit /\ BIdle
ChunkNext == ChunkTimes
ChunkSpec == ChunkInit /\ [][ChunkNext]_vars

\* ======================================================================
\* Convert.combine_files
\* ======================================================================
\* A converted file is [id, cw, ext]: cw tells whether its name holds the
\* marker '_cw', ext is '.nc' or '.zarr'.  A dataset is the list of the
\* (file, group) parts it was read from, in the order of its time axis.
\* The combined output is named after src_files[0]: [base, cw, ext] is
\* <name of file base>[combined]<'_cw' cw times><ext>; combine_files is
\* called with save_path=None.

SonarModels == {"EK60", "EK80", "AZFP"}
Exts == {".nc", ".zarr"}
Root == "/"

\* the loop body with the Beam group combined before the Sonar group
GroupOrderBeamFirst == <<Root, "Provenance", "Beam", "Sonar", "Environment",
                         "Platform", "Vendor", "Platform/NMEA", "VendorBlock">>

\* the groups in the order in which the loop body combines them
GroupOrder == <<Root, "Provenance", "Sonar", "Beam", "Environment",
                "Platform", "Vendor", "Platform/NMEA", "VendorBlock">>

\* how the loop body combines the group `name` for `model`
Strategy(model, name) ==
    CASE name \in {Root, "Provenance", "Sonar"} -> "open_dataset"
      [] name = "Beam" -> "by_coords"
      [] name = "Environment" ->
            IF model = "AZFP" THEN "by_coords" ELSE "open_dataset"
      [] name = "Platform" ->
            IF model = "AZFP" THEN "open_dataset" ELSE "by_coords"
      [] name = "Vendor" -> IF model = "AZFP" THEN "by_coords" ELSE "skip"
      [] name = "Platform/NMEA" ->
            IF model \in {"EK80", "EK60"} THEN "nested" ELSE "skip"
      [] name = "VendorBlock" ->
            IF model = "EK80" THEN "copy_vendor" ELSE "skip"

\* _check_param_consistency: returns True without reading any parameter
check_param_consistency(params) == TRUE

\* split_into_groups of an EK80 file list: [others, files with '_cw']
RECURSIVE SelectCw(_, _)
SelectCw(files, cw) ==
    IF files = <<>> THEN <<>>
    ELSE (IF Head(files).cw = cw THEN <<Head(files)>> ELSE <<>>)
         \o SelectCw(Tail(files), cw)

split_into_groups(files, model) ==
    IF model = "EK80" THEN <<SelectCw(files, FALSE), SelectCw(files, TRUE)>>
    ELSE <<files>>

\* time window of the pings of a converted file
Win(st, id) == IF st.in_order THEN id ELSE MaxFiles + MaxExtra + 1 - id

\* xr.open_dataset / xr.open_zarr of one group of one file
open_dataset(f, group) == <<[file |-> f.id, group |-> group]>>

\* xr.open_mfdataset: combine='by_coords' orders the datasets by their
\* time coordinate, combine='nested' keeps the order of the files
open_mfdataset(files, group, combine, st) ==
    LET parts == [k \in 1..Len(files) |-> [file |-> files[k].id,
                                           group |-> group]]
    IN IF combine = "by_coords"
       THEN SortSeq(parts, LAMBDA a, b : Win(st, a.file) < Win(st, b.file))
       ELSE parts

\* open_mfzarr: xr.open_zarr(f, **open_kwargs) of every file, the group
\* argument is not used, so it is the root group that is opened
open_mfzarr(files, group, combine) ==
    [k \in 1..Len(files) |-> [file |-> files[k].id, group |-> Root]]

Src == IF src_files.given THEN src_files.files ELSE output_file

FileIds == 1..(MaxFiles + MaxExtra)

BInit ==
    /\ sonar_model \in SonarModels
    /\ \E ext \in Exts, n_raw \in 1..MaxFiles, n_src \in 0..MaxFiles,
          n_extra \in 0..MaxExtra, cws \in [1..MaxFiles -> BOOLEAN] :
          /\ sonar_model # "EK80" =>
                n_extra = 0 /\ \A i \in 1..MaxFiles : ~cws[i]
          /\ source_file = [i \in 1..n_raw |-> i]
          /\ output_file = [i \in 1..n_raw |->
                              [id |-> i, cw |-> cws[i], ext |-> ext]]
          /\ src_files =
                IF n_src = 0 THEN [given |-> FALSE, files |-> <<>>]
                ELSE [given |-> TRUE,
                      files |-> [i \in 1..n_src |->
                                   [id |-> i, cw |-> cws[i], ext |-> ext]]]
          /\ extra_files = [j \in 1..n_extra |->
                              [id |-> MaxFiles + j, cw |-> TRUE, ext |-> ext]]
          /\ fs = {[id |-> i, cw |-> cws[i], ext |-> ext] :
                      i \in 1..Max(n_raw, n_src)}
                  \cup {[id |-> MaxFiles + j, cw |-> TRUE, ext |-> ext] :
                          j \in 1..n_extra}
    /\ remove_orig \in BOOLEAN
    /\ \E odd \in BOOLEAN, in_order \in BOOLEAN, steps \in 1..MaxSteps :
          stores = [params |-> [i \in FileIds |->
                                  IF odd /\ i = 2 THEN 2 ELSE 1],
                    in_order |-> in_order, steps |-> steps]
    /\ written = <<>>
    /\ file_groups = [bound |-> FALSE, groups |-> <<>>]
    /\ save_path = NoPath /\ group_i = 0 /\ stage = 0 /\ remove_i = 0
    /\ result = "None" /\ bpc = "call"

\* combine_files up to the head of the loop over file_groups
CombineFiles ==
    /\ bpc = "call"
    /\ IF Len(source_file) < 2 \/ ~check_param_consistency(stores.params)
       THEN /\ result' = "False" /\ bpc' = "done"
            /\ UNCHANGED <<file_groups, save_path, group_i, stage>>
       ELSE /\ file_groups' =
                  IF sonar_model = "EK80"
                  THEN [bound |-> TRUE,
                        groups |-> split_into_groups(Src \o extra_files,
                                                     sonar_model)]
                  ELSE [bound |-> FALSE, groups |-> <<>>]
            /\ save_path' = [base |-> Src[1].id, cw |-> 0, ext |-> Src[1].ext]
            /\ IF sonar_model = "EK80"
               THEN /\ bpc' = "groups" /\ group_i' = 0 /\ stage' = 1
                    /\ UNCHANGED result
               ELSE \* file_groups is read before it was ever assigned
                    /\ result' = "UnboundLocalError" /\ bpc' = "done"
                    /\ UNCHANGED <<group_i, stage>>
    /\ UNCHANGED <<sonar_model, source_file, output_file, extra_files,
                   src_files, remove_orig, stores, fs, written, remove_i,
                   wvars, cvars>>

\* what comes after the group at `stage` of the file group `group_i`
Advance ==
    IF stage < Len(GroupOrder)
    THEN /\ stage' = stage + 1 /\ UNCHANGED <<group_i, remove_i, bpc>>
    ELSE IF group_i + 1 < Len(file_groups.groups)
    THEN /\ stage' = 1 /\ group_i' = group_i + 1
         /\ UNCHANGED <<remove_i, bpc>>
    ELSE /\ bpc' = "remove" /\ remove_i' = 1 /\ UNCHANGED <<stage, group_i>>

Raise(e) ==
    /\ result' = e /\ bpc' = "done"
    /\ UNCHANGED <<stage, group_i, remove_i, written>>

\* _save, and the write of copy_vendor
Save(by, path, group, mode, ds, values) ==
    /\ written' = Append(written, [by |-> by, path |-> path, group |-> group,
                                   mode |-> mode, ds |-> ds,
                                   values |-> values])
    /\ UNCHANGED result
    /\ Advance

\* one group of the body of the loop over file_groups
CombineGroup ==
    /\ bpc = "groups"
    /\ LET file_group == file_groups.groups[group_i + 1]
           name == GroupOrder[stage]
           how == Strategy(sonar_model, name)
           ext == save_path.ext
           path == IF group_i = 1 /\ stage = 1
                   THEN [save_path EXCEPT !.cw = @ + 1] ELSE save_path
           mode == IF stage = 1 THEN "w" ELSE "a"
       IN /\ save_path' = path
          /\ CASE how = "skip" ->
                    /\ UNCHANGED <<written, result>> /\ Advance
               [] how = "open_dataset" ->
                    IF file_group = <<>> THEN Raise("IndexError")
                    ELSE IF file_group[1] \notin fs
                    THEN Raise("FileNotFoundError")
                    ELSE Save("_save", path, name, mode,
                              open_dataset(file_group[1], name), "source")
               [] how \in {"by_coords", "nested"} ->
                    IF \E k \in 1..Len(file_group) : file_group[k] \notin fs
                    THEN Raise("FileNotFoundError")
                    ELSE IF ext = ".nc"
                    THEN Save("_save", path, name, mode,
                              open_mfdataset(file_group, name, how, stores),
                              "source")
                    ELSE IF how = "nested"
                    THEN \* open_mfzarr takes no concat_dim, no decode_times
                         Raise("TypeError")
                    ELSE \* xr.combine_nested is called without concat_dim:
                         \* it raises TypeError where the argument is
                         \* required, and combines what was opened otherwise
                         \/ Raise("TypeError")
                         \/ Save("_save", path, name, mode,
                                 open_mfzarr(file_group, name, how), "source")
               [] how = "copy_vendor" ->
                    IF file_group = <<>> THEN Raise("IndexError")
                    ELSE IF ext # ".nc"
                    THEN \* netCDF4.Dataset of a zarr store
                         Raise("OSError")
                    ELSE \* the variables are filled from np.empty
                         \E values \in {"source", "arbitrary"} :
                            Save("copy_vendor", path, "Vendor", "a",
                                 open_dataset(file_group[1], "Vendor"), values)
    /\ UNCHANGED <<sonar_model, source_file, output_file, extra_files,
                   src_files, remove_orig, stores, fs, file_groups,
                   wvars, cvars>>

\* one turn of the loop that deletes the files after combining: _remove.
\* shutil.rmtree and os.remove raise when the file is not there or when
\* the system refuses the deletion; nothing catches the exception
RemoveFile ==
    /\ bpc = "remove"
    /\ remove_orig
    /\ remove_i <= Len(Src \o extra_files)
    /\ LET f == (Src \o extra_files)[remove_i] IN
       IF f \notin fs
       THEN /\ result' = "FileNotFoundError" /\ bpc' = "done"
            /\ UNCHANGED <<fs, remove_i>>
       ELSE \/ /\ fs' = fs \ {f} /\ remove_i' = remove_i + 1
               /\ UNCHANGED <<result, bpc>>
            \/ /\ result' = "PermissionError" /\ bpc' = "done"
               /\ UNCHANGED <<fs, remove_i>>
    /\ UNCHANGED <<sonar_model, source_file, output_file, extra_files,
                   src_files, remove_orig, stores, written, file_groups,
                   save_path, group_i, stage, wvars, cvars>>

\* return True
ReturnTrue ==
    /\ bpc = "remove"
    /\ ~remove_orig \/ remove_i > Len(Src \o extra_files)
    /\ result' = "True" /\ bpc' = "done"
    /\ UNCHANGED <<sonar_model, source_file, output_file, extra_files,
                   src_files, remove_orig, stores, fs, written, file_groups,
                   save_path, group_i, stage, remove_i, wvars, cvars>>

CombineInit == WIdle /\ CIdle /\ BInit
CombineNext == CombineFiles \/ CombineGroup \/ RemoveFile \/ ReturnTrue
CombineSpec == CombineInit /\ [][CombineNext]_vars

\* ======================================================================
\* Properties of the writer
\* ======================================================================
InputTimes == {zarr_dgrams[k].timestamp : k \in 1..Len(zarr_dgrams)}
InputChans == {zarr_dgrams[k].channel : k \in 1..Len(zarr_dgrams)}
TimesSeen == Unique([k \in 1..Len(zarr_dgrams) |-> zarr_dgrams[k].timestamp])
ChansSeen == Unique([k \in 1..Len(zarr_dgrams) |-> zarr_dgrams[k].channel])
RowsOf(t, c) == {m \in 1..Len(df_multi.rows) : df_multi.rows[m].key = <<t, c>>}
RecordsAt(t, c) ==
    {k \in 1..Len(zarr_dgrams) :
        zarr_dgrams[k].timestamp = t /\ zarr_dgrams[k].channel = c}
HasDuplicatePair ==
    \E i, j \in 1..Len(zarr_dgrams) :
        /\ i # j
        /\ zarr_dgrams[i].timestamp = zarr_dgrams[j].timestamp
        /\ zarr_dgrams[i].channel = zarr_dgrams[j].channel

\* C1: for every input record set, also one in which two records carry the
\* same (timestamp, channel) pair, set_multi_index returns a view with
\* (distinct timestamps) x (distinct channels) rows in which every such pair
\* appears exactly once, the pairs absent from the input as NaN rows.
C1_PaddedProduct ==
    wpc \notin {"idle", "start"} =>
        /\ df_multi.err = "None"
        /\ Len(df_multi.rows) = Cardinality(InputTimes) * Cardinality(InputChans)
        /\ \A t \in InputTimes, c \in InputChans :
              /\ Cardinality(RowsOf(t, c)) = 1
              /\ RecordsAt(t, c) = {} =>
                    \A m \in RowsOf(t, c) : df_multi.rows[m].samples = NaNValue

\* the same for the record sets in which no pair is repeated (not a claim:
\* it shows where C1 holds of the code)
PaddedProductOfDistinctPairs ==
    (wpc \notin {"idle", "start"} /\ ~HasDuplicatePair) =>
        /\ df_multi.err = "None"
        /\ Len(df_multi.rows) = Cardinality(InputTimes) * Cardinality(InputChans)
        /\ \A t \in InputTimes, c \in InputChans :
              /\ Cardinality(RowsOf(t, c)) = 1
              /\ \A m \in RowsOf(t, c) :
                    \/ \E k \in RecordsAt(t, c) :
                          df_multi.rows[m].samples = zarr_dgrams[k].samples
                    \/ RecordsAt(t, c) = {}
                       /\ df_multi.rows[m].samples = NaNValue

\* C2: for N >= 1 unique timestamps and a chunk size n >= 1 the chunks are
\* an ordered partition of the timestamps: ceil(N / n) chunks, their
\* concatenation is the timestamps in their order, their lengths sum to N
\* and the longest and the shortest differ by at most 1.
C2_EvenPartition ==
    cpc = "done" =>
        LET N == Len(unique_times)
            chunk_len == [k \in 1..Len(even_chunks) |-> Len(even_chunks[k])]
        IN /\ Len(even_chunks) = (N + max_time_chunk - 1) \div max_time_chunk
           /\ Flatten(even_chunks) = unique_times
           /\ SeqSum(chunk_len) = N
           /\ \A k \in 1..Len(chunk_len) : chunk_len[k] >= 1
           /\ SeqMax(chunk_len) - SeqMin(chunk_len) <= 1

\* several chunks, the chunk size does not divide the number of timestamps
\* and a split into full chunks plus a remainder would be uneven
C2_Witness ==
    /\ cpc = "done"
    /\ Len(unique_times) = 4 /\ max_time_chunk = 3
    /\ even_chunks = << <<1, 2>>, <<3, 4>> >>

\* C3: for every budget > 0, max_sample_length >= 1 and channel_count >= 1
\* the number of time steps per chunk handed to the partitioner is
\* max(1, floor(floor(budget_mb * 1e6 / (max_sample_length * 8)) /
\* channel_count)), never less than 1.
C3_ChunkLen ==
    (wpc = "chunking" /\ max_dim >= 1 /\ num_chan >= 1) =>
        max_num_pings =
            Max(1, ((num_mb * BudgetUnit) \div (max_dim * ElemSize))
                       \div num_chan)

\* C4: every chunk is built as a dense array (chunk_len, channel_count,
\* reference_length): an absent cell becomes reference_length NaNs, a
\* shorter array keeps its values followed by NaNs, an array of the
\* reference length is used as it is; for every mix of sample lengths.
PadRight(cell, L) ==
    IF ~cell.nd THEN nan_array_of(L)
    ELSE cell.data \o nan_array_of(L - Size(cell.data))

ViewCell(ti, ci) ==
    df_multi.rows[CHOOSE m \in 1..Len(df_multi.rows) :
                     df_multi.rows[m].key = <<TimesSeen[ti], ChansSeen[ci]>>]
        .samples

WrittenSteps(n) == SeqSum([k \in 1..n |-> Len(chunks[k])])

C4_DenseChunk ==
    chunks # <<>> =>
        /\ werr = "None"
        /\ full_array.created
        /\ Len(full_array.data) = WrittenSteps(chunk_i - 1)
        /\ \A ti \in 1..Len(full_array.data) :
              /\ Len(full_array.data[ti]) = Len(ChansSeen)
              /\ \A ci \in 1..Len(ChansSeen) :
                    full_array.data[ti][ci] = PadRight(ViewCell(ti, ci), max_dim)

\* C5: for every record set with dimensions (timestamp, channel), reading
\* the written group back and removing the padding recovers the records:
\* every sample array sits at its (time, channel) position with its values
\* and there is no value that was not in the input.
RECURSIVE StripNaNTail(_)
StripNaNTail(runs) ==
    IF runs = <<>> THEN <<>>
    ELSE IF runs[Len(runs)].tag = 0
         THEN StripNaNTail(SubSeq(runs, 1, Len(runs) - 1))
         ELSE runs

C5_RoundTrip ==
    wpc = "done" =>
        /\ werr = "None"
        /\ Len(full_array.data) = Len(TimesSeen)
        /\ \A k \in 1..Len(zarr_dgrams) :
              zarr_dgrams[k].samples.nd =>
                 StripNaNTail(full_array.data
                                [Position(TimesSeen, zarr_dgrams[k].timestamp)]
                                [Position(ChansSeen, zarr_dgrams[k].channel)])
                    = zarr_dgrams[k].samples.data
        /\ \A ti \in 1..Len(full_array.data) :
              \A ci \in 1..Len(full_array.data[ti]) :
                 LET cell == StripNaNTail(full_array.data[ti][ci]) IN
                 cell # <<>> =>
                    \E k \in RecordsAt(TimesSeen[ti], ChansSeen[ci]) :
                        /\ zarr_dgrams[k].samples.nd
                        /\ zarr_dgrams[k].samples.data = cell

\* the round trip of the writes that end without an exception (not a
\* claim: it shows that C5 fails only where the write raises)
RoundTripOfCompletedWrites ==
    (wpc = "done" /\ werr = "None") =>
        /\ Len(full_array.data) = Len(TimesSeen)
        /\ \A k \in 1..Len(zarr_dgrams) :
              zarr_dgrams[k].samples.nd =>
                 StripNaNTail(full_array.data
                                [Position(TimesSeen, zarr_dgrams[k].timestamp)]
                                [Position(ChansSeen, zarr_dgrams[k].channel)])
                    = zarr_dgrams[k].samples.data

\* C6: set_multi_index is idempotent: applied to the records of its own
\* padded view it yields the same view, same rows in the same order.
C6_Idempotent ==
    (wpc \notin {"idle", "start"} /\ df_multi.err = "None") =>
        set_multi_index(reset_index(df_multi), dims) = df_multi

\* a view that holds padding rows has been built
C6_Witness ==
    /\ wpc = "indexed"
    /\ df_multi.err = "None"
    /\ Len(df_multi.rows) > Len(zarr_dgrams)
    /\ \E m \in 1..Len(df_multi.rows) : df_multi.rows[m].samples = NaNValue
    /\ set_multi_index(reset_index(df_multi), dims) = df_multi

\* ======================================================================
\* Properties of the combine
\* ======================================================================
FilesOf(files) == {files[k] : k \in 1..Len(files)}
AllFiles == FilesOf(output_file) \cup FilesOf(src_files.files)
            \cup FilesOf(extra_files)
Consistent ==
    \A f, g \in FilesOf(Src) : stores.params[f.id] = stores.params[g.id]
NoOp ==
    /\ written = <<>>
    /\ fs = AllFiles
    /\ bpc = "done" => result = "False"

\* C7: a combine_files call with fewer than 2 source stores to merge (the
\* src_files passed, or the converter's output files when none are passed)
\* is a no-op: it returns False, writes no output and deletes no file,
\* whatever remove_orig and the number of raw source files are.
C7_NoOpBelowTwoStores ==
    (bpc # "idle" /\ Len(Src) < 2) => NoOp

\* C8: a combine_files call on source stores whose conversion parameters
\* are inconsistent is a no-op: it returns False, no group of the
\* destination is written and no source is deleted.
C8_NoOpOnInconsistentParams ==
    (bpc # "idle" /\ ~Consistent) => NoOp

\* the file groups the loop is meant to run over, and their outputs
IntendedGroups == split_into_groups(Src \o extra_files, sonar_model)
OutputPath(g) == [base |-> Src[1].id, cw |-> g - 1, ext |-> Src[1].ext]
SavesOf(g, name) ==
    {k \in 1..Len(written) :
        /\ written[k].by = "_save"
        /\ written[k].path = OutputPath(g)
        /\ written[k].group = name}
PartsOf(files, name) ==
    [k \in 1..Len(files) |-> [file |-> files[k].id, group |-> name]]

\* the policy table of the combine: "first", "concat" or "none"
Policy(model, name) ==
    CASE name \in {Root, "Provenance", "Sonar"} -> "first"
      [] name = "Beam" -> "concat"
      [] name = "Environment" -> IF model = "AZFP" THEN "concat" ELSE "first"
      [] name = "Platform" -> IF model = "AZFP" THEN "first" ELSE "concat"
      [] name = "Platform/NMEA" -> IF model = "AZFP" THEN "none" ELSE "concat"
      [] name = "Vendor" -> IF model = "AZFP" THEN "concat" ELSE "none"

PolicyGroups == {Root, "Provenance", "Sonar", "Beam", "Environment",
                 "Platform", "Platform/NMEA", "Vendor"}

FollowsPolicy ==
    \A g \in 1..Len(IntendedGroups), name \in PolicyGroups :
        LET files == IntendedGroups[g]
            how == Policy(sonar_model, name)
        IN CASE how = "none" -> SavesOf(g, name) = {}
             [] how = "first" ->
                   /\ Cardinality(SavesOf(g, name)) = 1
                   /\ \A k \in SavesOf(g, name) :
                         written[k].ds = PartsOf(SubSeq(files, 1, 1), name)
             [] how = "concat" ->
                   /\ Cardinality(SavesOf(g, name)) = 1
                   /\ \A k \in SavesOf(g, name) :
                         /\ Len(written[k].ds) = Len(files)
                         /\ FilesOf(written[k].ds) = FilesOf(PartsOf(files, name))

\* C9: for each of EK60, EK80 and AZFP a combine_files run whose
\* preconditions pass completes, returns True and writes each group with
\* the strategy of the policy table.
C9_PolicyTable ==
    (bpc = "done" /\ Len(Src) >= 2 /\ Consistent) =>
        result = "True" /\ FollowsPolicy

\* the runs that do return True follow the table (not a claim: it shows
\* that C9 fails through the runs that do not complete)
PolicyOfCompletedCombines ==
    (bpc = "done" /\ result = "True") => FollowsPolicy

\* time steps of a dataset's Beam data: (time window of the file, k)
BeamSteps(ds) ==
    Flatten([k \in 1..Len(ds) |->
               IF ds[k].group = "Beam"
               THEN [j \in 1..stores.steps |-> <<Win(stores, ds[k].file), j>>]
               ELSE <<>>])

\* C10: for every combine of N >= 2 source stores, in both formats, the
\* combined Beam group holds exactly the time steps of the sources' Beam
\* groups: as many as the sources have together, in source-file order, and
\* its data is read from each source's Beam group and no other group.
C10_BeamConcat ==
    (bpc # "idle" /\ Len(Src) >= 2) =>
        /\ \A g \in 1..Len(IntendedGroups) : \A k \in SavesOf(g, "Beam") :
              /\ written[k].ds = PartsOf(IntendedGroups[g], "Beam")
              /\ Len(BeamSteps(written[k].ds))
                    = Len(IntendedGroups[g]) * stores.steps
              /\ BeamSteps(written[k].ds)
                    = BeamSteps(PartsOf(IntendedGroups[g], "Beam"))
        /\ (bpc = "done" /\ result = "True") =>
              \A g \in 1..Len(IntendedGroups) : SavesOf(g, "Beam") # {}

\* the order in which the groups are to reach a combined output
FixedOrder == <<Root, "Provenance", "Sonar", "Beam", "Environment",
                "Platform", "Vendor", "Platform/NMEA", "VendorBlock">>
Rank(w) ==
    Position(FixedOrder,
             IF w.by = "copy_vendor" THEN "VendorBlock" ELSE w.group)
Applies(model, name) ==
    IF name = "VendorBlock" THEN model = "EK80"
    ELSE Policy(model, name) # "none"
WritesOf(g, name) ==
    {k \in 1..Len(written) :
        /\ written[k].path = OutputPath(g)
        /\ Rank(written[k]) = Position(FixedOrder, name)}

\* C11: in every combine run the groups reach each combined output in the
\* order top-level, Provenance, Sonar, Beam, Environment, Platform, Vendor,
\* Platform/NMEA, binary block: no group is written before one that
\* precedes it, no group is written twice, the first write to an output is
\* the top-level one and is the only one that creates or truncates it, and
\* a run that returns True has written every group that applies to the
\* model.
C11_FixedGroupOrder ==
    /\ \A k \in 1..Len(written) :
          LET w == written[k]
              earlier == {j \in 1..(k - 1) : written[j].path = w.path}
          IN /\ \A j \in earlier : Rank(written[j]) < Rank(w)
             /\ w.mode = (IF earlier = {} THEN "w" ELSE "a")
             /\ earlier = {} => (w.group = Root /\ w.by = "_save")
    /\ (bpc = "done" /\ result = "True") =>
          \A g \in 1..Len(IntendedGroups) :
             \A s \in 1..Len(FixedOrder) :
                Cardinality(WritesOf(g, FixedOrder[s])) =
                   (IF Applies(sonar_model, FixedOrder[s]) THEN 1 ELSE 0)

\* a combine that wrote its two outputs, every group of both, and returned
C11_Witness ==
    /\ bpc = "done" /\ result = "True"
    /\ Len(written) = 16
    /\ \E k \in 1..Len(written) : written[k].path = OutputPath(2)
    /\ written[Len(written)].by = "copy_vendor"

\* the combined outputs written so far
Outputs == {written[k].path : k \in 1..Len(written)}
SplitsInTwo ==
    LET files == Src \o extra_files
        gs == file_groups.groups
    IN /\ Len(gs) = 2
       /\ FilesOf(gs[1]) \cap FilesOf(gs[2]) = {}
       /\ FilesOf(gs[1]) \cup FilesOf(gs[2]) = FilesOf(files)
       /\ Len(gs[1]) + Len(gs[2]) = Len(files)
       /\ \A f \in FilesOf(gs[1]) : ~f.cw
       /\ \A f \in FilesOf(gs[2]) : f.cw
TwoOutputs ==
    /\ result \notin {"IndexError", "TypeError", "OSError"}
    /\ Outputs = {OutputPath(1), OutputPath(2)}
    /\ OutputPath(2) = [OutputPath(1) EXCEPT !.cw = 1]

\* C12: for model EK80 combine_files splits the files to merge (converted
\* outputs and extra files) by the marker '_cw' into two disjoint
\* sub-groups, every file in exactly one, and produces exactly two combined
\* outputs, the first at the combined save path and the second at that
\* path with '_cw' before the extension; also when one of the two
\* sub-groups has no file.
C12_TwoOutputs ==
    (sonar_model = "EK80" /\ file_groups.bound) =>
        /\ SplitsInTwo
        /\ bpc = "done" => TwoOutputs

\* the same for the netCDF file sets with a file in each sub-group (not a
\* claim: it shows that C12 fails through the empty sub-group)
TwoOutputsOfNonEmptySubGroups ==
    (/\ sonar_model = "EK80" /\ file_groups.bound
     /\ save_path.ext = ".nc"
     /\ \A g \in 1..Len(file_groups.groups) : file_groups.groups[g] # <<>>) =>
        /\ SplitsInTwo
        /\ bpc = "done" => TwoOutputs

\* the netCDF file sets with an empty sub-group end in IndexError
EmptySubGroupRaises ==
    (/\ sonar_model = "EK80" /\ file_groups.bound /\ bpc = "done"
     /\ save_path.ext = ".nc"
     /\ \E g \in 1..Len(file_groups.groups) : file_groups.groups[g] = <<>>) =>
        result = "IndexError"

\* the files whose deletion was refused
Refused ==
    IF result = "PermissionError" THEN {(Src \o extra_files)[remove_i]}
    ELSE {}

\* C13: after a successful combine with remove_orig the deletion of every
\* source store and every extra file is attempted: when the deletion of
\* one file fails, every other file is deleted all the same, the failure
\* is reported and the combined output is kept.
C13_BestEffortDeletion ==
    (bpc = "done" /\ remove_orig /\ remove_i >= 1) =>
        /\ \A f \in FilesOf(Src \o extra_files) : f \in Refused \/ f \notin fs
        /\ result = (IF Refused = {} THEN "True" ELSE "PermissionError")
        /\ Outputs # {}

\* the deletions of a run in which none is refused (not a claim: it shows
\* that C13 fails through the refused deletion)
DeletesAllWhenNoneRefused ==
    (bpc = "done" /\ remove_orig /\ result = "True") =>
        /\ \A f \in FilesOf(Src \o extra_files) : f \notin fs
        /\ Outputs # {}

\* the writes of the filter-coefficient block to the output of sub-group g
BlocksOf(g) ==
    {k \in 1..Len(written) :
        written[k].by = "copy_vendor" /\ written[k].path = OutputPath(g)}
FirstSourceBlock(g) ==
    \A k \in BlocksOf(g) :
        /\ written[k].group = "Vendor"
        /\ written[k].ds = PartsOf(SubSeq(IntendedGroups[g], 1, 1), "Vendor")

\* C14: for model EK80, after a combine, the Vendor filter-coefficient
\* block of each combined output is a verbatim copy of the block of the
\* first source: same attributes, same dimensions and for every variable
\* the same (real, imag) values; it is copied once per output, from the
\* first source only, in both output formats.
C14_VendorBlockCopy ==
    (sonar_model = "EK80" /\ bpc = "done" /\ result = "True") =>
        \A g \in 1..Len(IntendedGroups) :
           /\ Cardinality(BlocksOf(g)) = 1
           /\ FirstSourceBlock(g)
           /\ \A k \in BlocksOf(g) : written[k].values = "source"

\* where the block is written it is written once, with the attributes and
\* the dimensions of the first source (not a claim: it shows that C14
\* fails through the values and through the runs that raise)
VendorBlockLayout ==
    (sonar_model = "EK80" /\ file_groups.bound) =>
        /\ \A g \in 1..Len(IntendedGroups) :
              Cardinality(BlocksOf(g)) <= 1 /\ FirstSourceBlock(g)
        /\ result = "True" =>
              \A g \in 1..Len(IntendedGroups) : Cardinality(BlocksOf(g)) = 1

\* a zarr combine never writes the block
NoVendorBlockInZarr ==
    save_path.ext = ".zarr" =>
        \A k \in 1..Len(written) : written[k].by # "copy_vendor"

\* ======================================================================
\* Properties of the writer for any dimension list
\* ======================================================================
DimSet == {dims[d] : d \in 1..Len(dims)}
\* write_df_to_zarr has been called and has returned or raised
FieldHandled ==
    wpc \notin {"idle", "start", "indexed"} /\ df_multi.err = "None"

\* C15: write_df_to_zarr accepts a field only when its dimension set is
\* exactly {timestamp, channel}; for every other dimension set, one with
\* an extra dimension, with a different dimension or a strict subset such
\* as {timestamp}, it raises NotImplementedError before anything of the
\* field is written to the store.
C15_ExactDims ==
    FieldHandled =>
        IF DimSet = {"timestamp", "channel"}
        THEN werr # "NotImplementedError"
        ELSE /\ werr = "NotImplementedError"
             /\ wpc = "done"
             /\ ~full_array.created

\* the dimension sets that are no subset of {timestamp, channel} are
\* rejected (not a claim: it shows that C15 fails through the subsets)
RejectsOtherDims ==
    (FieldHandled /\ ~(DimSet \subseteq {"timestamp", "channel"})) =>
        /\ werr = "NotImplementedError"
        /\ wpc = "done"
        /\ ~full_array.created

\* ======================================================================
\* Degenerate input and the order of the chunk writes
\* ======================================================================
\* the longest sample array of the records, 0 when no record has one
MaxSampleLength ==
    SeqMax([k \in 1..Len(zarr_dgrams) |->
              IF zarr_dgrams[k].samples.nd
              THEN Size(zarr_dgrams[k].samples.data) ELSE 0])

\* C16: when the longest sample array of a field has length 0 (every
\* record's array is absent or empty) or the field has no channel,
\* array_col_to_zarr ends in an error: no chunk size is computed, no chunk
\* is built and no array of the field is created in the store.
C16_DegenerateInput ==
    (FieldHandled /\ (MaxSampleLength = 0 \/ InputChans = {})) =>
        /\ werr # "None"
        /\ wpc = "done"
        /\ max_num_pings = 0
        /\ chunks = <<>>
        /\ ~full_array.created /\ full_array.data = <<>>

\* array_col_to_zarr has raised on records on two channels of which one
\* has an empty array and the other none
C16_Witness ==
    /\ wpc = "done" /\ df_multi.err = "None"
    /\ werr = "OverflowError"
    /\ MaxSampleLength = 0
    /\ Cardinality(InputChans) = 2
    /\ \E k \in 1..Len(zarr_dgrams) : zarr_dgrams[k].samples.nd
    /\ \E k \in 1..Len(zarr_dgrams) : ~zarr_dgrams[k].samples.nd
    /\ ~full_array.created

\* what holds of the array of the field after k = chunk_i - 1 chunks
ChunksWritten ==
    /\ ~full_array.created => (full_array.data = <<>> /\ chunk_i = 0)
    /\ full_array.created =>
          /\ chunk_i \in 2..(Len(chunks) + 1)
          /\ Flatten(chunks) = TimesSeen
          /\ Len(full_array.data) = WrittenSteps(chunk_i - 1)
          /\ \A t \in 1..Len(full_array.data) :
                /\ Len(full_array.data[t]) = num_chan
                /\ \A c \in 1..num_chan :
                      Size(full_array.data[t][c]) = max_dim
    /\ (wpc = "done" /\ werr = "None") =>
          /\ full_array.created
          /\ chunk_i = Len(chunks) + 1
          /\ Len(full_array.data) = Len(TimesSeen)

\* what a step does to the array of the field
ChunkWrite ==
    /\ Len(full_array'.data) >= Len(full_array.data)
    /\ (~full_array.created /\ full_array'.created) =>
          /\ chunk_i' = 2
          /\ full_array'.chunks =
                <<SeqMax([k \in 1..Len(chunks') |-> Len(chunks'[k])]),
                  num_chan, max_dim>>
          /\ Len(full_array'.data) = Len(chunks'[1])
    /\ full_array.created =>
          /\ full_array'.created
          /\ full_array'.chunks = full_array.chunks
          /\ chunks' = chunks /\ num_chan' = num_chan /\ max_dim' = max_dim
          /\ \/ chunk_i' = chunk_i /\ full_array' = full_array
             \/ /\ chunk_i' = chunk_i + 1
                /\ chunk_i <= Len(chunks)
                /\ Len(full_array'.data) =
                      Len(full_array.data) + Len(chunks[chunk_i])
                /\ SubSeq(full_array'.data, 1, Len(full_array.data)) =
                      full_array.data

\* C17: the write of one field is write-once and append-only, in chunk
\* order: the array is created once, by the first chunk, with the chunk
\* shape (max_chunk_len, num_chan, max_dim), max_chunk_len the length of
\* the longest chunk; every later chunk is appended once along the time
\* axis, chunk k+1 after chunk k; after k chunks the time extent is the sum
\* of the lengths of the first k chunks, it never decreases, the channel
\* and sample extents never change, and after the last chunk the time
\* extent is the number of unique timestamps.
C17_AppendOnly == []ChunksWritten /\ [][ChunkWrite]_vars

\* a write of three time steps in two chunks of unequal length has ended
C17_Witness ==
    /\ wpc = "done" /\ werr = "None"
    /\ Len(chunks) = 2 /\ Len(chunks[1]) = 2 /\ Len(chunks[2]) = 1
    /\ chunk_i = 3
    /\ full_array.created
    /\ full_array.chunks = <<2, num_chan, max_dim>>
    /\ Len(full_array.data) = 3

====
